---- MODULE Spec2Model ----
(***************************************************************************)
(* Model of mesonbuild/modules/check.py (meson-check): the C declaration   *)
(* grammar, the name extractor, the classifier, the declaration rewriter,  *)
(* the probe synthesiser and the CheckModule methods built on them.        *)
(*                                                                         *)
(* Texts are sequences of one-character strings.  A Lark Token is a record *)
(* [type, value]; a Lark Tree is a record [data, children].                *)
(***************************************************************************)
EXTENDS Integers, Sequences, FiniteSets, TLC

----------------------------------------------------------------------------
(* Characters and texts                                                    *)

Lower == <<"a","b","c","d","e","f","g","h","i","j","k","l","m",
           "n","o","p","q","r","s","t","u","v","w","x","y","z">>

Upper == <<"A","B","C","D","E","F","G","H","I","J","K","L","M",
           "N","O","P","Q","R","S","T","U","V","W","X","Y","Z">>

Range(s) == { s[i] : i \in 1..Len(s) }

Letter == Range(Lower) \cup Range(Upper)

Digit == {"0","1","2","3","4","5","6","7","8","9"}

\* str.isalnum() on one character
isalnum(c) == c \in Letter \cup Digit

\* the regular-expression class \w
IsWordChar(c) == isalnum(c) \/ c = "_"

\* the characters common.WS skips and str.strip() removes
IsSpace(c) == c = " "

\* str.upper() on one character
UpperChar(c) ==
    IF c \in Range(Lower)
    THEN Upper[CHOOSE i \in 1..Len(Lower) : Lower[i] = c]
    ELSE c

RECURSIVE Concat(_)
\* ''.join(parts)
Concat(parts) ==
    IF parts = <<>> THEN <<>> ELSE Head(parts) \o Concat(Tail(parts))

RECURSIVE JoinWith(_, _)
\* sep.join(parts)
JoinWith(sep, parts) ==
    IF parts = <<>> THEN <<>>
    ELSE IF Len(parts) = 1 THEN parts[1]
    ELSE parts[1] \o sep \o JoinWith(sep, Tail(parts))

RECURSIVE strip(_)
\* str.strip()
strip(s) ==
    IF s = <<>> THEN s
    ELSE IF IsSpace(s[1]) THEN strip(Tail(s))
    ELSE IF IsSpace(s[Len(s)]) THEN strip(SubSeq(s, 1, Len(s) - 1))
    ELSE s

IsPrefix(p, s) == Len(p) <= Len(s) /\ SubSeq(s, 1, Len(p)) = p

----------------------------------------------------------------------------
(* Terminals of c_declaration_grammar                                      *)

CONST    == <<"c","o","n","s","t">>
ENUM     == <<"e","n","u","m">>
SIGNED   == <<"s","i","g","n","e","d">>
STATIC   == <<"s","t","a","t","i","c">>
STRUCT   == <<"s","t","r","u","c","t">>
\* the terminal UNION (UNION is a TLA+ keyword)
UNION_KW == <<"u","n","i","o","n">>
UNSIGNED == <<"u","n","s","i","g","n","e","d">>
VOLATILE == <<"v","o","l","a","t","i","l","e">>
LPAREN   == <<"(">>
RPAREN   == <<")">>
LSQUARE  == <<"[">>
RSQUARE  == <<"]">>
COMMA    == <<",">>
ELLIPSIS == <<".",".",".">>
STAR     == <<"*">>

Keywords == {CONST, ENUM, SIGNED, STATIC, STRUCT, UNION_KW, UNSIGNED, VOLATILE}

Punctuation == {LPAREN, RPAREN, LSQUARE, RSQUARE, COMMA, ELLIPSIS, STAR}

Literal(type) ==
    CASE type = "CONST" -> CONST
      [] type = "ENUM" -> ENUM
      [] type = "SIGNED" -> SIGNED
      [] type = "STATIC" -> STATIC
      [] type = "STRUCT" -> STRUCT
      [] type = "UNION" -> UNION_KW
      [] type = "UNSIGNED" -> UNSIGNED
      [] type = "VOLATILE" -> VOLATILE
      [] type = "LPAREN" -> LPAREN
      [] type = "RPAREN" -> RPAREN
      [] type = "LSQUARE" -> LSQUARE
      [] type = "RSQUARE" -> RSQUARE
      [] type = "COMMA" -> COMMA
      [] type = "ELLIPSIS" -> ELLIPSIS
      [] type = "STAR" -> STAR

\* end of the longest run of characters satisfying the class, starting at i
RECURSIVE RunEnd(_, _, _)
RunEnd(s, i, word) ==
    IF i <= Len(s) /\ (IF word THEN IsWordChar(s[i]) ELSE s[i] \in Digit)
    THEN RunEnd(s, i + 1, word)
    ELSE i

(***************************************************************************)
(* The scanner the grammar implies.  A lexeme is a record                  *)
(*   [text, kind, whole]                                                   *)
(* kind "word" is a match of /[a-zA-Z_]\w*/ or of a keyword literal, kind  *)
(* "number" a match of NUMBER and kind "punct" a punctuation literal.      *)
(* A regular expression matches greedily, so whole = TRUE marks the        *)
(* longest word starting there; a keyword literal also matches as a proper *)
(* prefix of a longer word, which gives a lexeme with whole = FALSE that   *)
(* only the keyword terminal accepts.  Lexings(s) is the set of all        *)
(* scans of s, white space skipped between lexemes.                        *)
(***************************************************************************)
RECURSIVE LexFrom(_, _)
LexFrom(s, i) ==
    IF i > Len(s) THEN { <<>> }
    ELSE IF IsSpace(s[i]) THEN LexFrom(s, i + 1)
    ELSE IF s[i] \in Range(Lower) \cup Range(Upper) \cup {"_"} THEN
        LET e == RunEnd(s, i, TRUE)
            run == SubSeq(s, i, e - 1)
            full == { <<[text |-> run, kind |-> "word", whole |-> TRUE]>> \o r :
                        r \in LexFrom(s, e) }
            split == UNION { { <<[text |-> k, kind |-> "word", whole |-> FALSE]>> \o r :
                                 r \in LexFrom(s, i + Len(k)) } :
                             k \in { k \in Keywords : IsPrefix(k, run) /\ k # run } }
        IN  full \cup split
    ELSE IF s[i] \in Digit THEN
        LET e == RunEnd(s, i, FALSE)
        IN  { <<[text |-> SubSeq(s, i, e - 1), kind |-> "number", whole |-> TRUE]>> \o r :
                r \in LexFrom(s, e) }
    ELSE IF i + 2 <= Len(s) /\ SubSeq(s, i, i + 2) = ELLIPSIS THEN
        { <<[text |-> ELLIPSIS, kind |-> "punct", whole |-> TRUE]>> \o r :
            r \in LexFrom(s, i + 3) }
    ELSE IF <<s[i]>> \in Punctuation THEN
        { <<[text |-> <<s[i]>>, kind |-> "punct", whole |-> TRUE]>> \o r :
            r \in LexFrom(s, i + 1) }
    ELSE {}

Lexings(s) == LexFrom(s, 1)

\* does lexeme lx match the terminal named type
Matches(type, lx) ==
    CASE type = "IDENTIFIER" -> lx.kind = "word" /\ lx.whole
      [] type = "NUMBER" -> lx.kind = "number"
      [] OTHER -> lx.text = Literal(type)

Token(type, lx) == [type |-> type, value |-> lx.text]

Tree(data, children) == [data |-> data, children |-> children]

\* isinstance(tree, Token)
IsToken(t) == "value" \in DOMAIN t

\* L[i] as a token of the terminal type, when i is inside the span end j
At(L, i, j, type) == i < j /\ i <= Len(L) /\ Matches(type, L[i])

----------------------------------------------------------------------------
(***************************************************************************)
(* c_declaration_grammar.  Each rule r is an operator r(L, i, j): the set  *)
(* of trees the rule derives from the lexemes L[i] .. L[j-1], shaped as    *)
(* Lark shapes them: an alias (->) names the node, a rule marked ? is      *)
(* replaced by its only child when it has exactly one, and the named       *)
(* terminals are kept as Token children.                                   *)
(***************************************************************************)
RECURSIVE pointer(_, _, _)
RECURSIVE parameter_list(_, _, _)
RECURSIVE parameter(_, _, _)
RECURSIVE parameter_declarator(_, _, _)
RECURSIVE declarator(_, _, _)
RECURSIVE declaration(_, _, _)
RECURSIVE actual_declaration(_, _, _)

\* the tokens of L[i] .. L[j-1], each of the terminal type given by typeOf
Tokens(L, i, j, typeOf(_)) == [ k \in 1..(j - i) |-> Token(typeOf(L[i + k - 1]), L[i + k - 1]) ]

\* ?type_qualifier: CONST | VOLATILE
IsTypeQualifier(lx) == Matches("CONST", lx) \/ Matches("VOLATILE", lx)

TypeQualifierType(lx) == IF Matches("CONST", lx) THEN "CONST" ELSE "VOLATILE"

type_qualifier(L, i, j) ==
    IF j = i + 1 /\ i <= Len(L) /\ IsTypeQualifier(L[i])
    THEN { Token(TypeQualifierType(L[i]), L[i]) }
    ELSE {}

SpecifierTypes == {"STRUCT", "UNION", "ENUM", "SIGNED", "UNSIGNED"}

\* type_specifier: STRUCT | UNION | ENUM | SIGNED | UNSIGNED
type_specifier(L, i, j) ==
    IF j = i + 1 /\ i <= Len(L)
    THEN { Tree("type_specifier", <<Token(t, L[i])>>) :
             t \in { t \in SpecifierTypes : Matches(t, L[i]) } }
    ELSE {}

\* ?pointer: STAR type_qualifier* pointer?
pointer(L, i, j) ==
    IF ~At(L, i, j, "STAR") THEN {}
    ELSE UNION {
        IF \A k \in (i + 1)..(i + q) : IsTypeQualifier(L[k])
        THEN LET head == <<Token("STAR", L[i])>>
                         \o Tokens(L, i + 1, i + 1 + q, TypeQualifierType)
             IN  IF i + 1 + q = j
                 THEN { IF Len(head) = 1 THEN head[1] ELSE Tree("pointer", head) }
                 ELSE { Tree("pointer", head \o <<p>>) : p \in pointer(L, i + 1 + q, j) }
        ELSE {}
        : q \in 0..(j - i - 1) }

\* ?constant_expression: IDENTIFIER | (NUMBER)+
constant_expression(L, i, j) ==
    IF i >= j \/ j > Len(L) + 1 THEN {}
    ELSE (IF j = i + 1 /\ Matches("IDENTIFIER", L[i])
          THEN { Token("IDENTIFIER", L[i]) } ELSE {})
         \cup
         (IF \A k \in i..(j - 1) : Matches("NUMBER", L[k])
          THEN LET nums == Tokens(L, i, j, LAMBDA lx : "NUMBER")
               IN  { IF Len(nums) = 1 THEN nums[1] ELSE Tree("constant_expression", nums) }
          ELSE {})

\* type: type_qualifier? type_specifier* IDENTIFIER type_qualifier? pointer?
type(L, i, j) ==
    UNION {
        LET id == i + a + s
            k  == id + 1 + b
        IN  IF /\ k <= j
               /\ a = 1 => IsTypeQualifier(L[i])
               /\ \A m \in (i + a)..(id - 1) : type_specifier(L, m, m + 1) # {}
               /\ Matches("IDENTIFIER", L[id])
               /\ b = 1 => IsTypeQualifier(L[id + 1])
            THEN LET specs == { [ m \in 1..s |->
                                    CHOOSE sp \in type_specifier(L, i + a + m - 1, i + a + m) : TRUE ] }
                     pre == Tokens(L, i, i + a, TypeQualifierType)
                     mid == <<Token("IDENTIFIER", L[id])>>
                            \o Tokens(L, id + 1, id + 1 + b, TypeQualifierType)
                 IN  IF k = j
                     THEN { Tree("type", pre \o sp \o mid) : sp \in specs }
                     ELSE { Tree("type", pre \o sp \o mid \o <<p>>) :
                              sp \in specs, p \in pointer(L, k, j) }
            ELSE {}
        : a \in {0, 1}, b \in {0, 1}, s \in 0..(j - i) }

\* the children of LPAREN (parameter_list)? RPAREN over L[k] .. L[j-1]
ParenTail(L, k, j) ==
    IF At(L, k, j, "LPAREN") /\ k + 1 < j /\ Matches("RPAREN", L[j - 1])
    THEN IF k + 2 = j
         THEN { <<Token("LPAREN", L[k]), Token("RPAREN", L[j - 1])>> }
         ELSE { <<Token("LPAREN", L[k]), pl, Token("RPAREN", L[j - 1])>> :
                  pl \in parameter_list(L, k + 1, j - 1) }
    ELSE {}

\* the children of LSQUARE STATIC? constant_expression RSQUARE over L[k] .. L[j-1]
SquareTail(L, k, j, static) ==
    IF At(L, k, j, "LSQUARE") /\ k + 1 < j /\ Matches("RSQUARE", L[j - 1])
    THEN { <<Token("LSQUARE", L[k]), ce, Token("RSQUARE", L[j - 1])>> :
             ce \in constant_expression(L, k + 1, j - 1) }
         \cup
         (IF static /\ At(L, k + 1, j - 1, "STATIC")
          THEN { <<Token("LSQUARE", L[k]), Token("STATIC", L[k + 1]), ce,
                   Token("RSQUARE", L[j - 1])>> :
                   ce \in constant_expression(L, k + 2, j - 1) }
          ELSE {})
    ELSE {}

\* the trees data(<<x>> \o tail) for x in heads and tail in tails
WithTail(data, heads, tails) ==
    { Tree(data, <<x>> \o tail) : x \in heads, tail \in tails }

\* parameter_list: parameter | parameter_list COMMA ELLIPSIS
\*               | parameter_list COMMA parameter
parameter_list(L, i, j) ==
    { Tree("parameter_list", <<p>>) : p \in parameter(L, i, j) }
    \cup
    (IF j - 2 > i /\ Matches("COMMA", L[j - 2]) /\ Matches("ELLIPSIS", L[j - 1])
     THEN WithTail("parameter_list", parameter_list(L, i, j - 2),
                   { <<Token("COMMA", L[j - 2]), Token("ELLIPSIS", L[j - 1])>> })
     ELSE {})
    \cup
    UNION { IF Matches("COMMA", L[k])
            THEN LET ps == parameter(L, k + 1, j)
                 IN  IF ps = {} THEN {}
                     ELSE WithTail("parameter_list", parameter_list(L, i, k),
                                   { <<Token("COMMA", L[k]), p>> : p \in ps })
            ELSE {}
            : k \in (i + 1)..(j - 2) }

\* parameter: type parameter_declarator
\*          | parameter LPAREN (parameter_list)? RPAREN
\*          | parameter LSQUARE STATIC? constant_expression RSQUARE
parameter(L, i, j) ==
    UNION { LET ts == type(L, i, k)
            IN  IF ts = {} THEN {}
                ELSE WithTail("parameter", ts,
                              { <<pd>> : pd \in parameter_declarator(L, k, j) })
            : k \in (i + 1)..j }
    \cup
    UNION { LET tails == ParenTail(L, k, j) \cup SquareTail(L, k, j, TRUE)
            IN  IF tails = {} THEN {}
                ELSE WithTail("parameter", parameter(L, i, k), tails)
            : k \in (i + 1)..(j - 2) }

\* parameter_declarator: IDENTIFIER? -> parameter_name
\*     | LPAREN parameter_declarator RPAREN
\*     | pointer parameter_declarator
\*     | parameter_declarator LPAREN (parameter_list)? RPAREN
parameter_declarator(L, i, j) ==
    (IF i = j THEN { Tree("parameter_name", <<>>) } ELSE {})
    \cup
    (IF j = i + 1 /\ At(L, i, j, "IDENTIFIER")
     THEN { Tree("parameter_name", <<Token("IDENTIFIER", L[i])>>) } ELSE {})
    \cup
    (IF At(L, i, j, "LPAREN") /\ i + 1 < j /\ Matches("RPAREN", L[j - 1])
     THEN { Tree("parameter_declarator", <<Token("LPAREN", L[i]), pd, Token("RPAREN", L[j - 1])>>) :
              pd \in parameter_declarator(L, i + 1, j - 1) }
     ELSE {})
    \cup
    UNION { LET ps == pointer(L, i, k)
            IN  IF ps = {} THEN {}
                ELSE WithTail("parameter_declarator", ps,
                              { <<pd>> : pd \in parameter_declarator(L, k, j) })
            : k \in (i + 1)..j }
    \cup
    UNION { LET tails == ParenTail(L, k, j)
            IN  IF tails = {} THEN {}
                ELSE WithTail("parameter_declarator", parameter_declarator(L, i, k), tails)
            : k \in i..(j - 2) }

\* declarator: IDENTIFIER -> declaration_name
\*     | LPAREN declarator RPAREN
\*     | pointer declarator
\*     | declarator LPAREN (parameter_list)? RPAREN
declarator(L, i, j) ==
    (IF j = i + 1 /\ At(L, i, j, "IDENTIFIER")
     THEN { Tree("declaration_name", <<Token("IDENTIFIER", L[i])>>) } ELSE {})
    \cup
    (IF At(L, i, j, "LPAREN") /\ i + 1 < j /\ Matches("RPAREN", L[j - 1])
     THEN { Tree("declarator", <<Token("LPAREN", L[i]), d, Token("RPAREN", L[j - 1])>>) :
              d \in declarator(L, i + 1, j - 1) }
     ELSE {})
    \cup
    UNION { LET ps == pointer(L, i, k)
            IN  IF ps = {} THEN {}
                ELSE WithTail("declarator", ps, { <<d>> : d \in declarator(L, k, j) })
            : k \in (i + 1)..(j - 1) }
    \cup
    UNION { LET tails == ParenTail(L, k, j)
            IN  IF tails = {} THEN {}
                ELSE WithTail("declarator", declarator(L, i, k), tails)
            : k \in (i + 1)..(j - 2) }

\* ?actual_declaration: type declarator
\*     | declaration LPAREN (parameter_list)? RPAREN
\*     | declaration LSQUARE constant_expression RSQUARE
actual_declaration(L, i, j) ==
    UNION { LET ts == type(L, i, k)
            IN  IF ts = {} THEN {}
                ELSE WithTail("actual_declaration", ts, { <<d>> : d \in declarator(L, k, j) })
            : k \in (i + 1)..(j - 1) }
    \cup
    UNION { LET tails == ParenTail(L, k, j) \cup SquareTail(L, k, j, FALSE)
            IN  IF tails = {} THEN {}
                ELSE WithTail("actual_declaration", declaration(L, i, k), tails)
            : k \in (i + 1)..(j - 2) }

\* declaration: IDENTIFIER -> declaration_name
\*     | actual_declaration
declaration(L, i, j) ==
    (IF j = i + 1 /\ At(L, i, j, "IDENTIFIER")
     THEN { Tree("declaration_name", <<Token("IDENTIFIER", L[i])>>) } ELSE {})
    \cup
    { Tree("declaration", <<ad>>) : ad \in actual_declaration(L, i, j) }

\* Lark(c_declaration_grammar, start='declaration').parse(text): the set of
\* parse trees of the text; the empty set when the text is not in the language
c_declaration_parser(text) ==
    UNION { declaration(L, 1, Len(L) + 1) : L \in Lexings(text) }

----------------------------------------------------------------------------
(* The functions over parse trees                                          *)

\* Python's None, a value no text is equal to
None == <<"None">>

\* the truth value Python gives a text or None
Truthy(x) == x # None /\ x # <<>>

\* str(token)
str(tok) == tok.value

RECURSIVE extract_declaration_name(_)
RECURSIVE FirstChildName(_, _)
\* the loop of extract_declaration_name over tree.children, from child k on
FirstChildName(children, k) ==
    IF k > Len(children) THEN None
    ELSE LET name == extract_declaration_name(children[k])
         IN  IF Truthy(name) THEN name ELSE FirstChildName(children, k + 1)

\* extract_declaration_name taking an identifier token for a name
extract_declaration_name_token(tree) ==
    IF IsToken(tree) THEN (IF tree.type = "IDENTIFIER" THEN str(tree) ELSE None)
    ELSE IF tree.data = "declaration_name" THEN str(tree.children[1])
    ELSE FirstChildName(tree.children, 1)

extract_declaration_name(tree) ==
    IF IsToken(tree) THEN None
    ELSE IF tree.data = "declaration_name" THEN str(tree.children[1])
    ELSE FirstChildName(tree.children, 1)

RECURSIVE tokenize(_, _)
\* tokenize without the branch that drops parameter names
tokenize_keep_parameters(tree, name) ==
    IF IsToken(tree) THEN <<str(tree)>>
    ELSE IF tree.data = "declaration_name" THEN <<name>>
    ELSE Concat([ k \in 1..Len(tree.children) |-> tokenize(tree.children[k], name) ])

\* the inner function of rewrite_declaration; name is the enclosing argument
tokenize(tree, name) ==
    IF IsToken(tree) THEN <<str(tree)>>
    ELSE IF tree.data = "declaration_name" THEN <<name>>
    ELSE IF tree.data = "parameter_name" THEN <<>>
    ELSE Concat([ k \in 1..Len(tree.children) |-> tokenize(tree.children[k], name) ])

\* SpaceBefore with 'or' binding tighter than 'and'
SpaceBefore_or_first(last, first) ==
    (last = "," \/ isalnum(last)) /\ (isalnum(first) \/ first = "*")

\* the condition under which rewrite_declaration puts a space before tok,
\* last being out[-1] and first being tok[0]
SpaceBefore(last, first) ==
    last = "," \/ (isalnum(last) /\ (isalnum(first) \/ first = "*"))

RECURSIVE JoinTokens(_, _)
\* the loop of rewrite_declaration over tokens, out being the text so far
JoinTokens(out, tokens) ==
    IF tokens = <<>> THEN out
    ELSE LET tok == Head(tokens)
         IN  IF Len(tok) = 0 THEN JoinTokens(out, Tail(tokens))
             ELSE IF SpaceBefore(out[Len(out)], tok[1])
                  THEN JoinTokens(out \o <<" ">> \o tok, Tail(tokens))
                  ELSE JoinTokens(out \o tok, Tail(tokens))

rewrite_declaration(tree, name) ==
    strip(JoinTokens(<<" ">>, tokenize(tree, name)))

\* is_lone_identifier accepting the start rule as well
is_lone_identifier_any(tree) ==
    ~IsToken(tree) /\ tree.data \in {"declaration_name", "declaration"}

is_lone_identifier(tree) ==
    ~IsToken(tree) /\ tree.data = "declaration_name"

\* the replacement '(*_)' of c_check_prototype
Placeholder == <<"(", "*", "_", ")">>

IncludeOpen == <<"#","i","n","c","l","u","d","e"," ","<">>

CheckOpen == <<"v","o","i","d"," ","_","_","c","h","e","c","k","(","v","o","i","d",")"," ","{">>

AssignOpen == <<" ","=", " ","&","(">>

AssignClose == <<")",";">>

\* c_check_prototype with the check line indented by one space
c_check_prototype_indented(tree, pkg, name) ==
    LET check == <<" ">> \o rewrite_declaration(tree, Placeholder)
                 \o AssignOpen \o name \o AssignClose
    IN  JoinWith(<<"\n">>, << IncludeOpen \o pkg \o <<">">>,
                             CheckOpen,
                             check,
                             <<"}">> >>)

c_check_prototype(tree, pkg, name) ==
    LET check == rewrite_declaration(tree, Placeholder) \o AssignOpen \o name \o AssignClose
    IN  JoinWith(<<"\n">>, << IncludeOpen \o pkg \o <<">">>,
                             CheckOpen,
                             check,
                             <<"}">> >>)

\* the keys of declaration_parsers; both map to the same grammar
declaration_parsers == {"c", "cpp"}

\* declaration_parsers[lang].parse(text)
Parse(lang, text) == c_declaration_parser(text)

\* the keys of prototype_checkers
prototype_checker_langs == {"c", "cpp"}

\* prototype_checkers[lang](tree, pkg, name)
prototype_checkers(lang, tree, pkg, name) ==
    CASE lang = "c" -> c_check_prototype(tree, pkg, name)
      [] lang = "cpp" -> c_check_prototype(tree, pkg, name)

----------------------------------------------------------------------------
(* The declaration texts the checks are run on                             *)

\* the longest parameter list drawn
MaxParams == 2

INT == <<"i","n","t">>

CHAR == <<"c","h","a","r">>

\* the base types drawn, as token lists
TypeTokens ==
    { <<INT>>, <<<<"t","_">>>>, <<CONST, CHAR, STAR>> }

\* the declared names drawn
Names == { <<"f">>, <<"_","g">> }

\* the parameters drawn, as token lists
ParamTokens ==
    { <<INT, <<"a">>>>, <<<<"_","t">>>>, <<UNSIGNED, <<"n">>>> }

RECURSIVE ParamListsOf(_)
\* the token lists of n comma-separated parameters
ParamListsOf(n) ==
    IF n = 0 THEN { <<>> }
    ELSE IF n = 1 THEN ParamTokens
    ELSE { pl \o <<COMMA>> \o p : pl \in ParamListsOf(n - 1), p \in ParamTokens }

\* the parameter lists drawn, each with and without a trailing ellipsis
ParamLists ==
    LET plain == UNION { ParamListsOf(n) : n \in 0..MaxParams }
    IN  plain \cup { pl \o <<COMMA, ELLIPSIS>> : pl \in plain \ { <<>> } }

\* declarations with nested declarators, arrays and function-pointer parameters
SpecialTokens ==
    { <<INT, <<"f">>, LSQUARE, <<"2">>, RSQUARE>>,
      <<INT, <<"f">>, LSQUARE, <<"1">>, <<"2">>, RSQUARE>>,
      <<INT, STAR, CONST, STAR, <<"f">>>>,
      <<STRUCT, <<"s">>, <<"f">>, LPAREN, INT, <<"v">>, LSQUARE, STATIC, <<"n">>, RSQUARE, RPAREN>>,
      <<INT, <<"f">>, LPAREN, INT, LPAREN, STAR, <<"c">>, RPAREN, LPAREN, INT, <<"a">>, RPAREN, RPAREN>>,
      <<<<"f">>, LPAREN, INT, <<"a">>, RPAREN>>,
      <<INT, LPAREN>>,
      <<INT, <<"f">>, LPAREN, COMMA, RPAREN>>,
      <<>> }

\* the token lists of the declarations drawn
DeclTokens ==
    { <<n>> : n \in Names }
    \cup { t \o <<n>> : t \in TypeTokens, n \in Names }
    \cup { t \o <<n, LPAREN>> \o pl \o <<RPAREN>> :
             t \in TypeTokens, n \in Names, pl \in ParamLists }
    \cup { t \o <<LPAREN, STAR, n, RPAREN, LPAREN>> \o pl \o <<RPAREN>> :
             t \in { <<INT>> }, n \in Names, pl \in ParamLists }
    \cup SpecialTokens

\* the declaration texts drawn: the tokens separated by single spaces
Decls == { JoinWith(<<" ">>, toks) : toks \in DeclTokens }

\* the header names drawn
Headers == { <<"x",".","h">> }

----------------------------------------------------------------------------
(* State                                                                   *)

VARIABLES
    pc,           \* position in the parse / rewrite pipeline
    lang,         \* the language the parser and the checker are looked up by
    pkg,          \* the header name
    text,         \* the declaration text
    tree,         \* parser.parse(text)
    name,         \* extract_declaration_name(tree)
    replacement,  \* the name argument of rewrite_declaration
    tokens,       \* the token list of rewrite_declaration before joining
    out,          \* the result of rewrite_declaration
    prog,         \* the result of the prototype checker
    renames       \* the names extracted from the parse trees of out

declVars == <<pc, lang, pkg, text, tree, name, replacement, tokens, out, prog, renames>>

VARIABLES
    options,      \* CheckModule.options: the keys language and config
    stores,       \* the configuration data objects: store |-> set of [name, value]
    compilers,    \* state.compilers: the languages that have a compiler, in order
    call,         \* what the last method call did and how it ended
    ncalls        \* the number of method calls made so far

modVars == <<options, stores, compilers, call, ncalls>>

vars == <<declVars, modVars>>

\* the value of a variable nothing has been assigned to yet
Unset == <<"unset">>

\* a key that is not in a dictionary
Absent == "absent"

\* the configuration data objects: the one _config creates itself and one the
\* build file hands to setup(config: ...)
StoreIds == {"own", "user"}

\* self.options after __init__
NoOptions == [language |-> Absent, config |-> Absent]

NoCall ==
    [ method |-> "none", status |-> "return", result |-> "None", error |-> "",
      disabled |-> FALSE, required |-> FALSE, variable |-> <<>>, subject |-> <<>>,
      lang |-> Absent, decl |-> Unset, pkg |-> <<>>, parses |-> 0, tree |-> Unset,
      name |-> Unset, ok |-> FALSE, ops |-> <<>>, rewrites |-> <<>>, sets |-> <<>> ]

\* the pipeline variables while the module methods run
DeclIdle ==
    /\ pc = "idle"
    /\ lang = "c"
    /\ pkg = <<>>
    /\ text = <<>>
    /\ tree = Unset
    /\ name = Unset
    /\ replacement = Unset
    /\ tokens = Unset
    /\ out = Unset
    /\ prog = Unset
    /\ renames = {}

\* the module state while the pipeline runs
ModIdle ==
    /\ options = NoOptions
    /\ stores = [ s \in StoreIds |-> {} ]
    /\ compilers = <<"c">>
    /\ call = NoCall
    /\ ncalls = 0

DeclInit ==
    /\ pc = "start"
    /\ lang \in declaration_parsers
    /\ pkg \in Headers
    /\ text \in Decls
    /\ tree = Unset
    /\ name = Unset
    /\ replacement = Unset
    /\ tokens = Unset
    /\ out = Unset
    /\ prog = Unset
    /\ renames = {}
    /\ ModIdle

\* tree = parser.parse(decl); name = extract_declaration_name(tree)
DoParse ==
    /\ pc = "start"
    /\ \/ /\ Parse(lang, text) = {}
          /\ pc' = "SyntaxError"
          /\ UNCHANGED <<tree, name>>
       \/ \E t \in Parse(lang, text) :
          /\ tree' = t
          /\ name' = extract_declaration_name(t)
          /\ pc' = "parsed"
    /\ UNCHANGED <<lang, pkg, text, replacement, tokens, out, prog, renames>>
    /\ UNCHANGED modVars

\* rewrite_declaration(tree, r), with the declared name or with '(*_)'
DoRewrite ==
    /\ pc = "parsed"
    /\ \E r \in {name, Placeholder} :
        /\ replacement' = r
        /\ tokens' = tokenize(tree, r)
        /\ out' = rewrite_declaration(tree, r)
    /\ pc' = "rewritten"
    /\ UNCHANGED <<lang, pkg, text, tree, name, prog, renames>>
    /\ UNCHANGED modVars

\* prog = checker(tree, pkg, name)
DoCheckPrototype ==
    /\ pc = "parsed"
    /\ lang \in prototype_checker_langs
    /\ prog' = prototype_checkers(lang, tree, pkg, name)
    /\ pc' = "probe"
    /\ UNCHANGED <<lang, pkg, text, tree, name, replacement, tokens, out, renames>>
    /\ UNCHANGED modVars

\* parse the declaration rewritten with its own name again
DoReparse ==
    /\ pc = "rewritten"
    /\ replacement = name
    /\ renames' = { extract_declaration_name(t) : t \in Parse(lang, out) }
    /\ pc' = "reparsed"
    /\ UNCHANGED <<lang, pkg, text, tree, name, replacement, tokens, out, prog>>
    /\ UNCHANGED modVars

DeclNext == DoParse \/ DoRewrite \/ DoCheckPrototype \/ DoReparse

DeclSpec == DeclInit /\ [][DeclNext]_vars

----------------------------------------------------------------------------
(* CheckModule                                                             *)

\* the number of method calls in one run
MaxCalls == 3

\* one more method call is made
Called ==
    /\ ncalls < MaxCalls
    /\ ncalls' = ncalls + 1

\* the languages drawn for setup(language: ...) and for state.compilers
CompilerSets == { <<"java", "c">>, <<"cpp", "java">>, <<>> }

Languages == {"c", "java"}

\* the declarations the module is called with: a bare identifier, a
\* structured declaration with a named parameter, and a malformed text
ModuleDecls ==
    { <<"f">>,
      JoinWith(<<" ">>, <<INT, <<"f">>, LPAREN, INT, <<"a">>, RPAREN>>),
      JoinWith(<<" ">>, <<INT, LPAREN>>) }

\* the symbols drawn for check.symbol
Symbols == { <<"f">> }

\* the values drawn for the keyword 'variable'; Absent when it is not given
Variables == { <<"V">> }

\* what extract_required_kwarg (meson) makes of the keyword 'required': a
\* disabled feature, a required check, an optional check
RequiredKwargs ==
    { [disabled |-> TRUE,  required |-> FALSE],
      [disabled |-> FALSE, required |-> TRUE],
      [disabled |-> FALSE, required |-> FALSE] }

Init ==
    /\ options = NoOptions
    /\ stores = [ s \in StoreIds |-> {} ]
    /\ compilers \in CompilerSets
    /\ call = NoCall
    /\ ncalls = 0
    /\ DeclIdle

\* _compiler ignoring the language option
Compiler_first(opts, comps) ==
    IF comps = <<>> THEN "StopIteration" ELSE comps[1]

\* CheckModule._compiler: the language selected, or "StopIteration" when
\* next(iter(...)) finds no compiler at all
Compiler(opts, comps) ==
    IF opts.language \in Range(comps) THEN opts.language
    ELSE IF comps = <<>> THEN "StopIteration"
    ELSE comps[1]

\* re.sub(r'\W', '_', text.upper())
UpperWord(s) ==
    [ k \in 1..Len(s) |-> IF IsWordChar(UpperChar(s[k])) THEN UpperChar(s[k]) ELSE "_" ]

\* the variable _set_config_var sets: kwargs.get('variable', 'HAVE_' + ...)
VarName(variable, subject) ==
    IF variable # <<>> THEN variable
    ELSE <<"H", "A", "V", "E", "_">> \o UpperWord(subject)

\* CheckModule._config: the store in use, created on first use
ConfigOf(opts) == IF opts.config = Absent THEN "own" ELSE opts.config

\* self.options after _config
WithConfig(opts) == [opts EXCEPT !.config = ConfigOf(opts)]

\* ConfigurationDataHolder.set_method(args=[var, value])
SetVar(store, var, value) ==
    { e \in store : e.name # var } \cup { [name |-> var, value |-> value] }

\* the set_method calls of _set_config_var
SetCalls(opts, status, var) ==
    IF status THEN << [store |-> ConfigOf(opts), name |-> var, value |-> 1] >> ELSE <<>>

\* _set_config_var without the test of status
SetConfigVar_always(strs, opts, status, var) ==
    [strs EXCEPT ![ConfigOf(opts)] = SetVar(strs[ConfigOf(opts)], var, 1)]

\* the stores after _set_config_var
SetConfigVar(strs, opts, status, var) ==
    IF status
    THEN [strs EXCEPT ![ConfigOf(opts)] = SetVar(strs[ConfigOf(opts)], var, 1)]
    ELSE strs

\* the test without 'and required'
RequiredButNotFound_always(ok, required) == ~ok

\* the test 'not ok and required' that turns a failed check into an exception
RequiredButNotFound(ok, required) == ~ok /\ required

\* the end of symbol, declaration and header after the compiler has answered:
\* _set_config_var, then raise or return
Finish(c, ok, op) ==
    LET var == VarName(c.variable, c.subject)
        done == [c EXCEPT !.ok = ok, !.ops = <<op>>, !.sets = SetCalls(options, ok, var)]
    IN  /\ options' = WithConfig(options)
        /\ stores' = SetConfigVar(stores, options, ok, var)
        /\ call' = IF RequiredButNotFound(ok, c.required)
                   THEN [done EXCEPT !.status = "raise",
                                     !.error = "required but not found"]
                   ELSE [done EXCEPT !.result = IF ok THEN "True" ELSE "False"]

\* a method ends without touching the options or the stores
Leave(c) ==
    /\ call' = c
    /\ UNCHANGED <<options, stores>>

Operation(op, header, symbol, source) ==
    [op |-> op, header |-> header, symbol |-> symbol, source |-> source]

\* the part of symbol and header after the keyword arguments are read
SimpleCheck(method, op, subject, kw, variable, ok) ==
    LET c == [NoCall EXCEPT !.method = method, !.disabled = kw.disabled,
                            !.required = kw.required, !.variable = variable,
                            !.subject = subject]
        sel == Compiler(options, compilers)
    IN  IF kw.disabled THEN Leave([c EXCEPT !.result = "False"])
        ELSE IF sel = "StopIteration"
             THEN Leave([c EXCEPT !.status = "raise", !.error = "StopIteration"])
        ELSE Finish([c EXCEPT !.lang = sel], ok,
                    IF op = "has_function"
                    THEN Operation(op, <<>>, subject, <<>>)
                    ELSE Operation(op, subject, <<>>, <<>>))

\* CheckModule.symbol(name, required:, variable:); ok is the answer of
\* compiler.has_function
CheckModule_symbol ==
    \E subject \in Symbols, kw \in RequiredKwargs,
       variable \in Variables \cup { <<>> }, ok \in BOOLEAN :
        /\ SimpleCheck("symbol", "has_function", subject, kw, variable, ok)
        /\ UNCHANGED <<compilers, declVars>>

\* CheckModule.header(name, required:, variable:); ok is the answer of
\* compiler.has_header
CheckModule_header ==
    \E subject \in Headers, kw \in RequiredKwargs,
       variable \in Variables \cup { <<>> }, ok \in BOOLEAN :
        /\ SimpleCheck("header", "has_header", subject, kw, variable, ok)
        /\ UNCHANGED <<compilers, declVars>>

\* the steps of declaration from parser.parse to the choice of the check,
\* for the tree t the parser returned: the name, the prototype shown in the
\* log, whether the prototype is checked, and the probe program if it is
Analysis(language, header, decl, t) ==
    LET found == extract_declaration_name(t)
        check_prototype == ~is_lone_identifier(t)
    IN  [ lang |-> language, pkg |-> header, decl |-> decl, tree |-> t,
          name |-> found,
          proto |-> IF found = None THEN Unset ELSE rewrite_declaration(t, found),
          check_prototype |-> check_prototype,
          prog |-> IF found # None /\ check_prototype /\ language \in prototype_checker_langs
                   THEN prototype_checkers(language, t, header, found)
                   ELSE Unset ]

\* the part of declaration from parser.parse on; ok is the answer of
\* compiler.compiles or compiler.has_header_symbol
CheckParsed(c, a, ok) ==
    LET named == [c EXCEPT !.tree = a.tree, !.name = a.name, !.subject = a.name,
                           !.rewrites = <<a.tree>>]
    IN  IF a.name = None
        THEN Leave([named EXCEPT !.status = "raise", !.error = "TypeError"])
        ELSE IF a.check_prototype
        THEN IF c.lang \notin prototype_checker_langs
             THEN Leave([named EXCEPT !.status = "raise",
                                      !.error = "no checker program"])
             ELSE Finish([named EXCEPT !.rewrites = <<a.tree, a.tree>>], ok,
                         Operation("compiles", <<>>, <<>>, a.prog))
        ELSE Finish(named, ok, Operation("has_header_symbol", a.pkg, a.name, <<>>))

\* CheckModule.declaration(pkg, decl, required:, variable:)
CheckModule_declaration ==
    \E header \in Headers, decl \in ModuleDecls :
        LET sel == Compiler(options, compilers)
            parsed == IF sel \in declaration_parsers
                      THEN { Analysis(sel, header, decl, t) : t \in Parse(sel, decl) }
                      ELSE {}
        IN  \E kw \in RequiredKwargs, variable \in Variables \cup { <<>> }, ok \in BOOLEAN :
            LET c == [NoCall EXCEPT !.method = "declaration", !.disabled = kw.disabled,
                                    !.required = kw.required, !.variable = variable,
                                    !.decl = decl, !.pkg = header]
                sc == [c EXCEPT !.lang = sel]
            IN  /\ IF kw.disabled THEN Leave([c EXCEPT !.result = "False"])
                   ELSE IF sel = "StopIteration"
                        THEN Leave([c EXCEPT !.status = "raise", !.error = "StopIteration"])
                   ELSE IF sel \notin declaration_parsers
                        THEN Leave([sc EXCEPT !.status = "raise",
                                              !.error = "no declaration parser"])
                   ELSE IF parsed = {}
                        THEN Leave([sc EXCEPT !.parses = 1, !.status = "raise",
                                              !.error = "syntax error"])
                   ELSE \E a \in parsed : CheckParsed([sc EXCEPT !.parses = 1], a, ok)
                /\ UNCHANGED <<compilers, declVars>>

\* CheckModule.setup(language:, config:): self.options.update(kwargs)
CheckModule_setup ==
    \E language \in Languages \cup {Absent}, config \in {"user", Absent} :
        /\ options' = [ language |-> IF language = Absent THEN options.language ELSE language,
                        config |-> IF config = Absent THEN options.config ELSE config ]
        /\ call' = [NoCall EXCEPT !.method = "setup"]
        /\ UNCHANGED <<stores, compilers, declVars>>

\* CheckModule.config(): the configuration data object in use
CheckModule_config ==
    /\ options' = WithConfig(options)
    /\ call' = [NoCall EXCEPT !.method = "config", !.result = "config"]
    /\ UNCHANGED <<stores, compilers, declVars>>

Next ==
    \/ Called /\ CheckModule_symbol
    \/ Called /\ CheckModule_declaration
    \/ Called /\ CheckModule_header
    \/ Called /\ CheckModule_setup
    \/ Called /\ CheckModule_config

Spec == Init /\ [][Next]_vars

----------------------------------------------------------------------------
(* Properties of the parse / rewrite pipeline (specification DeclSpec)     *)

Parsed == pc \in {"parsed", "rewritten", "probe", "reparsed"}

Rewritten == pc \in {"rewritten", "reparsed"}

RECURSIVE NameSites(_)
\* the identifier texts of all nodes tagged declaration_name, left to right
NameSites(t) ==
    IF IsToken(t) THEN <<>>
    ELSE (IF t.data = "declaration_name" THEN <<t.children[1].value>> ELSE <<>>)
         \o Concat([ k \in 1..Len(t.children) |-> NameSites(t.children[k]) ])

RECURSIVE Terminals(_, _)
\* the terminal tokens below t, left to right, each with the site it lies
\* under: "declaration_name", "parameter_name" or, outside both, "plain"
Terminals(t, site) ==
    IF IsToken(t) THEN << [text |-> t.value, site |-> site] >>
    ELSE LET inner == IF t.data \in {"declaration_name", "parameter_name"}
                      THEN t.data ELSE site
         IN  Concat([ k \in 1..Len(t.children) |-> Terminals(t.children[k], inner) ])

\* number of positions of s that hold x
Count(s, x) == Cardinality({ k \in 1..Len(s) : s[k] = x })

\* (C2) every parse tree holds exactly one node tagged declaration_name, and
\* extract_declaration_name returns that node's identifier, never None; for a
\* text that is one bare identifier it returns the text itself
C2_OneNameSite ==
    Parsed =>
        LET sites == NameSites(tree)
        IN  /\ Len(sites) = 1
            /\ name = sites[1]
            /\ name # None
            /\ Count(Terminals(tree, "plain"),
                     [text |-> name, site |-> "declaration_name"]) = 1
            /\ is_lone_identifier(tree) => name = text

\* a structured declaration with named parameters has been parsed and its
\* name extracted
C2_Witness ==
    /\ pc = "parsed"
    /\ ~is_lone_identifier(tree)
    /\ name = <<"_", "g">>
    /\ LET ts == Terminals(tree, "plain")
       IN  \E k \in 1..Len(ts) : ts[k].site = "parameter_name"

\* the token list the claim describes: the terminals in order, the one under
\* declaration_name replaced by r and those under parameter_name dropped
ExpectedTokens(t, r) ==
    LET ts == Terminals(t, "plain")
        kept == SelectSeq(ts, LAMBDA x : x.site # "parameter_name")
    IN  [ k \in 1..Len(kept) |->
            IF kept[k].site = "declaration_name" THEN r ELSE kept[k].text ]

\* (C3) the token list of rewrite_declaration is the left-to-right sequence
\* of the tree's terminals with the declaration_name replaced by the
\* replacement and every parameter_name dropped; commas and the ellipsis
\* are kept, each as often as in the tree
C3_TokenList ==
    Rewritten =>
        LET ts == Terminals(tree, "plain")
            texts == [ k \in 1..Len(ts) |-> ts[k].text ]
        IN  /\ tokens = ExpectedTokens(tree, replacement)
            /\ Len(tokens) = Len(ts) - Len(SelectSeq(ts, LAMBDA x : x.site = "parameter_name"))
            /\ \A p \in {COMMA, ELLIPSIS, LPAREN, RPAREN, STAR} :
                 p # replacement => Count(tokens, p) = Count(texts, p)

\* a declaration with a named parameter and a trailing ellipsis has been
\* rewritten with '(*_)'
C3_Witness ==
    /\ pc = "rewritten"
    /\ replacement = Placeholder
    /\ Count(tokens, ELLIPSIS) = 1
    /\ LET ts == Terminals(tree, "plain")
       IN  \E k \in 1..Len(ts) : ts[k].site = "parameter_name"

RECURSIVE SplitLines(_)
\* text.split('\n')
SplitLines(s) ==
    IF \A k \in 1..Len(s) : s[k] # "\n" THEN <<s>>
    ELSE LET k == CHOOSE k \in 1..Len(s) : s[k] = "\n" /\ \A m \in 1..(k - 1) : s[m] # "\n"
         IN  <<SubSeq(s, 1, k - 1)>> \o SplitLines(SubSeq(s, k + 1, Len(s)))

\* (C4) the probe program is four lines joined by single newlines, without a
\* trailing newline: the include of the header, the opening of __check, the
\* declaration rewritten with '(*_)' followed by ' = &(name);' with nothing
\* before it, and the closing brace; the same for 'c' and for 'cpp'
C4_ProbeText ==
    pc = "probe" =>
        LET lines == SplitLines(prog)
        IN  /\ Len(lines) = 4
            /\ lines[1] = IncludeOpen \o pkg \o <<">">>
            /\ lines[2] = CheckOpen
            /\ lines[3] = rewrite_declaration(tree, Placeholder)
                          \o <<" ", "=", " ", "&", "(">> \o name \o <<")", ";">>
            /\ lines[4] = <<"}">>
            /\ prog[Len(prog)] = "}"
            /\ Len(prog) = Len(lines[1]) + Len(lines[2]) + Len(lines[3]) + 4

\* the probe of a structured declaration has been built for language cpp
C4_Witness ==
    /\ pc = "probe"
    /\ lang = "cpp"
    /\ ~is_lone_identifier(tree)
    /\ Count(tokenize(tree, Placeholder), COMMA) > 0

\* (C5) the declaration rewritten with its own name is accepted by the
\* grammar again and has a parse tree whose extracted name is that name
C5_RoundTrip ==
    pc = "reparsed" => name \in renames

\* the non-empty tokens
NonEmpty(toks) == SelectSeq(toks, LAMBDA tok : Len(tok) > 0)

\* the tokens joined with a space before token k exactly when Rule holds of
\* the last character of token k-1 and the first character of token k
Spaced(toks, Rule(_, _)) ==
    LET ne == NonEmpty(toks)
    IN  Concat([ k \in 1..Len(ne) |->
                   IF k > 1 /\ Rule(ne[k - 1][Len(ne[k - 1])], ne[k][1])
                   THEN <<" ">> \o ne[k] ELSE ne[k] ])

\* the rule as the claim reads it: both conditions must hold
C6_ClaimedRule(last, first) ==
    /\ isalnum(last) \/ last = ","
    /\ isalnum(first) \/ first = "*"

\* the rule as amended: a comma alone is enough
C6_AmendedRule(last, first) ==
    \/ last = ","
    \/ /\ isalnum(last)
       /\ isalnum(first) \/ first = "*"

NoOuterSpace(s) == s # <<>> => ~IsSpace(s[1]) /\ ~IsSpace(s[Len(s)])

\* (C6, as claimed) a space is put before a token iff the previous character
\* is alphanumeric or a comma and the token begins with an alphanumeric
\* character or '*'; the result has no leading or trailing white space
C6_SpacingAsClaimed ==
    Rewritten => out = Spaced(tokens, C6_ClaimedRule) /\ NoOuterSpace(out)

\* (C6, amended) a space is put before a token iff the previous character is
\* a comma, or it is alphanumeric and the token begins with an alphanumeric
\* character or '*'; the result has no leading or trailing white space
C6_SpacingAmended ==
    Rewritten => out = Spaced(tokens, C6_AmendedRule) /\ NoOuterSpace(out)

\* a declaration whose parameter list ends in ', ...' has been rewritten
C6_Witness ==
    /\ pc = "rewritten"
    /\ \E k \in 1..(Len(tokens) - 1) : tokens[k] = COMMA /\ tokens[k + 1] = ELLIPSIS
    /\ \E k \in 1..(Len(out) - 1) : out[k] = "," /\ out[k + 1] = " "

----------------------------------------------------------------------------
(* Properties of the CheckModule methods (specification Spec)              *)

\* the last call was a declaration check that parsed its declaration
DeclarationParsed ==
    /\ call.method = "declaration"
    /\ ~call.disabled
    /\ call.parses = 1
    /\ call.error # "syntax error"

\* the text is one identifier and nothing else
IsIdentifierText(s) ==
    \E L \in Lexings(s) : Len(L) = 1 /\ L[1].kind = "word" /\ L[1].whole

\* (C1) a non-disabled declaration check whose text parses invokes exactly
\* one compiler operation: has_header_symbol(header, name) when the top node
\* of the tree is tagged declaration_name, which is the case exactly when
\* the text is a bare identifier, and compiles(probe) in every other case
C1_OneOperation ==
    DeclarationParsed =>
        LET top == call.tree.data = "declaration_name"
        IN  /\ is_lone_identifier(call.tree) <=> top
            /\ top <=> IsIdentifierText(call.decl)
            /\ Len(call.ops) = 1
            /\ top => call.ops[1] = Operation("has_header_symbol", call.pkg, call.name, <<>>)
            /\ ~top => call.ops[1] = Operation("compiles", <<>>, <<>>,
                                             c_check_prototype(call.tree, call.pkg, call.name))

\* a structured declaration has been checked by compiling its probe
C1_Witness ==
    /\ DeclarationParsed
    /\ call.tree.data = "declaration"
    /\ Len(call.ops) = 1
    /\ call.ops[1].op = "compiles"
    /\ call.status = "return"

\* the compiler has rejected the probe of a structured declaration
C7_Rejected ==
    /\ call.method = "declaration"
    /\ Len(call.ops) = 1
    /\ call.ops[1].op = "compiles"
    /\ ~call.ok

\* (C7, as claimed) when compiles returns false, declaration returns false
\* and does not raise, whatever the keyword arguments
C7_AsClaimed ==
    C7_Rejected => call.status = "return" /\ call.result = "False"

\* (C7, amended) when compiles returns false, declaration returns false
\* without raising if the check is not required, and raises
\* 'required but not found' if it is required
C7_Amended ==
    C7_Rejected =>
        IF call.required
        THEN call.status = "raise" /\ call.error = "required but not found"
        ELSE call.status = "return" /\ call.result = "False"

\* an optional check of a structured declaration has come back negative
C7_Witness ==
    /\ C7_Rejected
    /\ ~call.required
    /\ call.status = "return"
    /\ call.result = "False"

\* the language _compiler selects, as the claim words it
C8_Selected ==
    IF options.language \in Range(compilers) THEN options.language ELSE compilers[1]

\* the state after a declaration check that selected a language without parser
C8_Unsupported ==
    /\ call.method = "declaration"
    /\ ~call.disabled
    /\ compilers # <<>>
    /\ C8_Selected \notin declaration_parsers

\* (C8) a declaration check whose selected language has no entry in
\* declaration_parsers fails with an explicit error before anything is
\* parsed or rewritten, before any compiler operation and before any
\* configuration variable is set
C8_UnsupportedLanguage ==
    [][ C8_Unsupported' =>
          /\ call'.status = "raise"
          /\ call'.error = "no declaration parser"
          /\ call'.lang = C8_Selected'
          /\ call'.parses = 0
          /\ call'.rewrites = <<>>
          /\ call'.ops = <<>>
          /\ call'.sets = <<>>
          /\ stores' = stores ]_vars

\* a declaration check has failed because the language chosen in setup,
\* which has a compiler, has no parser
C8_Witness ==
    /\ C8_Unsupported
    /\ options.language = "java"
    /\ compilers = <<"cpp", "java">>
    /\ call.error = "no declaration parser"

\* (C9) rewrite_declaration is never invoked on a tree the classifier
\* reports as a bare identifier
C9_NoRewriteOfBareIdentifier ==
    \A k \in 1..Len(call.rewrites) : ~is_lone_identifier(call.rewrites[k])

\* the variable a check names, as the claim words it
C10_Variable(c) ==
    IF c.variable # <<>> THEN c.variable
    ELSE <<"H", "A", "V", "E", "_">>
         \o [ k \in 1..Len(c.subject) |->
                LET u == UpperChar(c.subject[k])
                IN  IF u \in Letter \cup Digit \cup {"_"} THEN u ELSE "_" ]

\* the call was a check whose compiler operation returned true
C10_Success(c) ==
    /\ c.method \in {"symbol", "declaration", "header"}
    /\ Len(c.ops) = 1
    /\ c.ok

C10_Step ==
    LET current == IF options.config = Absent THEN "own" ELSE options.config
        entry == [name |-> C10_Variable(call'), value |-> 1]
    IN  /\ \A s \in StoreIds :
              stores'[s] # stores[s] =>
                /\ C10_Success(call')
                /\ s = current
                /\ stores'[s] = { e \in stores[s] : e.name # entry.name } \cup {entry}
        /\ (ncalls' # ncalls /\ C10_Success(call')) =>
              /\ entry \in stores'[current]
              /\ call'.status = "return"
              /\ call'.result = "True"
        /\ \A s \in StoreIds : stores[s] \subseteq stores'[s]

\* (C10) the configuration data changes in one way only: a check whose
\* compiler operation returned true sets its variable to 1 in the store in
\* use; a check that returns false, raises or is disabled changes nothing,
\* and nothing set earlier is cleared or lowered
C10_ConfigChanges == [][C10_Step]_vars

\* a successful check has set the variable named by the keyword in the
\* store given to setup, after an earlier one set one in the module's own
C10_Witness ==
    /\ C10_Success(call)
    /\ call.variable = <<"V">>
    /\ options.config = "user"
    /\ [name |-> <<"V">>, value |-> 1] \in stores["user"]
    /\ stores["own"] # {}

====
